---- MODULE Spec2Model ----
(***************************************************************************)
(* Model of the PID controller of go-pid-controller (package pid).         *)
(*                                                                         *)
(* The controller is the struct PID; its operations are Update and Reset.  *)
(* float64 values are modelled as exact rationals <<n, d>> (d > 0, lowest  *)
(* terms), time.Time as an integer number of clock ticks (one tick is one  *)
(* second), and the zero time.Time as ZeroTime.                            *)
(*                                                                         *)
(* main.go holds two definitions of the package; the model follows the     *)
(* second one (type PID at line 107, Update at line 133, Reset at line     *)
(* 193).  The first differs in the integral candidate only (line 58 adds   *)
(* pid.integral to the trapezoid area, line 162 does not).                 *)
(***************************************************************************)
EXTENDS Integers, Sequences, FiniteSets, TLC

\* ------------------------------------------------------------------ bounds
MaxClock == 2      \* the clock is read at ticks 0..MaxClock
MaxMeasured == 1   \* measured values are drawn from -MaxMeasured..MaxMeasured

Setpoints == {0, 1}
Measureds == (0 - MaxMeasured)..MaxMeasured
KpValues == {1, 2}
KiValues == {0, 1}
KdValues == {0, 1}
DeadbandValues == {0, 2}
OutputLimits == {<<-1, 1>>, <<-3, -1>>}

\* ------------------------------------------------- float64 as exact rationals
RECURSIVE GCD(_, _)
GCD(a, b) == IF b = 0 THEN a ELSE GCD(b, a % b)

IAbs(i) == IF i < 0 THEN 0 - i ELSE i

Norm(n, d) ==
    LET g == GCD(IAbs(n), d)
    IN  <<n \div g, d \div g>>

R(i) == <<i, 1>>
Half == <<1, 2>>

RAdd(a, b) == Norm(a[1] * b[2] + b[1] * a[2], a[2] * b[2])
RSub(a, b) == Norm(a[1] * b[2] - b[1] * a[2], a[2] * b[2])
RMul(a, b) == Norm(a[1] * b[1], a[2] * b[2])
RDiv(a, b) ==
    IF b[1] > 0 THEN Norm(a[1] * b[2], a[2] * b[1])
                ELSE Norm(0 - a[1] * b[2], 0 - a[2] * b[1])
RLt(a, b) == a[1] * b[2] < b[1] * a[2]
RLe(a, b) == a[1] * b[2] <= b[1] * a[2]
RAbs(a) == <<IAbs(a[1]), a[2]>>

\* ------------------------------------------------------------------- state
VARIABLES
    Kp, Ki, Kd, MinOutput, MaxOutput, Deadband, AntiWindup,  \* parameters
    Saturated,                                               \* PID.Saturated
    prevError, integral, lastTime, lastOutput,               \* internal state
    clock,                                                   \* time.Now()
    call,                                                    \* the last call made
    hist                                                     \* what the calls so far did

params == <<Kp, Ki, Kd, MinOutput, MaxOutput, Deadband, AntiWindup>>
vars == <<Kp, Ki, Kd, MinOutput, MaxOutput, Deadband, AntiWindup,
          Saturated, prevError, integral, lastTime, lastOutput, clock, call, hist>>

ZeroTime == -1

IsZero(t) == t = ZeroTime

\* The fields of the controller, recorded when a call starts.
Fields == [prevError |-> prevError, integral |-> integral, lastTime |-> lastTime,
           lastOutput |-> lastOutput, Saturated |-> Saturated, params |-> params]

NoCall == [op |-> "new", path |-> "none", error |-> R(0),
           dt |-> 0, now |-> 0, raw |-> R(0), ret |-> R(0),
           pre |-> Fields, first |-> FALSE]

\* everFull: some Update ran to its end; fullSinceReset: one did since
\* construction or the last Reset; allSaturated / allLarge: every such Update
\* ended saturated / had error > 0 and Kp * error > MaxOutput.
NoHist == [everFull |-> FALSE, fullSinceReset |-> FALSE,
           allSaturated |-> TRUE, allLarge |-> TRUE]

Init ==
    /\ Kp \in {R(k) : k \in KpValues}
    /\ Ki \in {R(k) : k \in KiValues}
    /\ Kd \in {R(k) : k \in KdValues}
    /\ \E lim \in OutputLimits : MinOutput = R(lim[1]) /\ MaxOutput = R(lim[2])
    /\ Deadband \in {R(k) : k \in DeadbandValues}
    /\ AntiWindup \in BOOLEAN
    /\ Saturated = FALSE
    /\ prevError = R(0)
    /\ integral = R(0)
    /\ lastTime = ZeroTime
    /\ lastOutput = R(0)
    /\ clock = 0
    /\ call = NoCall
    /\ hist = NoHist

\* ------------------------------------------------------------------ Update
\* time.Since(pid.lastTime).Seconds(), the clock being read at tick t.
Since(last, t) == t - last

InDeadbandOff(error) == FALSE

\* math.Abs(error) < pid.Deadband
InDeadband(error) == RLt(RAbs(error), Deadband)

PTermUnitGain(error) == error

PTerm(error) == RMul(Kp, error)

DTerm(error, dt) ==
    IF Kd # R(0) THEN RDiv(RMul(Kd, RSub(error, prevError)), R(dt)) ELSE R(0)

\* integral := 0.5 * dt * (error + pid.prevError)
IntegralCandidate(error, dt) == RMul(RMul(Half, R(dt)), RAdd(error, prevError))

ITerm == IF Ki # R(0) THEN RMul(Ki, integral) ELSE R(0)

\* output := pTerm + iTerm + dTerm, with the integral term of the new candidate.
RawOutputFresh(error, dt) ==
    RAdd(RAdd(PTerm(error), RMul(Ki, IntegralCandidate(error, dt))), DTerm(error, dt))

RawOutput(error, dt) == RAdd(RAdd(PTerm(error), ITerm), DTerm(error, dt))

LimitOutput(output) ==
    IF RLt(MaxOutput, output) THEN MaxOutput
    ELSE IF RLt(output, MinOutput) THEN MinOutput
    ELSE output

SaturatedWheneverClamped(output, error) ==
    RLt(MaxOutput, output) \/ RLt(output, MinOutput)

SaturatedFlag(output, error) ==
    IF RLt(MaxOutput, output) THEN RLt(R(0), error)
    ELSE IF RLt(output, MinOutput) THEN RLt(error, R(0))
    ELSE FALSE

NextIntegralAlways(candidate, saturated) ==
    IF AntiWindup THEN candidate ELSE integral

\* if pid.AntiWindup && !pid.Saturated { pid.integral = integral }
NextIntegral(candidate, saturated) ==
    IF AntiWindup /\ ~saturated THEN candidate ELSE integral

\* if pid.lastTime.IsZero() { pid.lastTime = now }
StartTime(now) == IF IsZero(lastTime) THEN now ELSE lastTime

\* An early return that also stores the error it was called with.
ShortCircuitStoresError(setpoint, measured, now, dt, why) ==
    /\ lastTime' = StartTime(now)
    /\ prevError' = R(setpoint - measured)
    /\ UNCHANGED <<Saturated, integral, lastOutput, hist>>
    /\ call' = [op |-> "update", path |-> why, error |-> R(setpoint - measured),
                dt |-> dt, now |-> now, raw |-> R(0),
                ret |-> lastOutput, pre |-> Fields, first |-> FALSE]

\* The two early returns: return pid.lastOutput.
ShortCircuit(setpoint, measured, now, dt, why) ==
    /\ lastTime' = StartTime(now)
    /\ UNCHANGED <<Saturated, prevError, integral, lastOutput, hist>>
    /\ call' = [op |-> "update", path |-> why, error |-> R(setpoint - measured),
                dt |-> dt, now |-> now, raw |-> R(0),
                ret |-> lastOutput, pre |-> Fields, first |-> FALSE]

Compute(setpoint, measured, now, dt) ==
    LET error == R(setpoint - measured)
        raw == RawOutput(error, dt)
        output == LimitOutput(raw)
        saturated == SaturatedFlag(raw, error)
    IN  /\ prevError' = error
        /\ lastTime' = now
        /\ lastOutput' = output
        /\ Saturated' = saturated
        /\ integral' = NextIntegral(IntegralCandidate(error, dt), saturated)
        /\ call' = [op |-> "update", path |-> "full", error |-> error,
                    dt |-> dt, now |-> now, raw |-> raw,
                    ret |-> output, pre |-> Fields,
                    first |-> ~hist.fullSinceReset]
        /\ hist' = [everFull |-> TRUE, fullSinceReset |-> TRUE,
                    allSaturated |-> hist.allSaturated /\ saturated,
                    allLarge |-> /\ hist.allLarge
                                 /\ RLt(R(0), error)
                                 /\ RLt(MaxOutput, RMul(Kp, error))]

\* func (pid *PID) Update(setpoint, measured float64) float64.  The clock is
\* read twice, by time.Now() and then by time.Since; it may advance by
\* `delay` ticks between the two reads.
Update(setpoint, measured, delay) ==
    LET now == clock
        dt == Since(StartTime(now), clock + delay)
    IN  /\ clock + delay <= MaxClock
        /\ clock' = clock + delay
        /\ UNCHANGED params
        /\ IF dt <= 0
              THEN ShortCircuit(setpoint, measured, now, dt, "dt")
              ELSE IF InDeadband(R(setpoint - measured))
                THEN ShortCircuit(setpoint, measured, now, dt, "deadband")
                ELSE Compute(setpoint, measured, now, dt)

\* ------------------------------------------------------------------- Reset
\* A Reset that clears the last output and the saturation flag as well.
ResetClearsAll ==
    /\ prevError' = R(0)
    /\ integral' = R(0)
    /\ lastTime' = clock
    /\ lastOutput' = R(0)
    /\ Saturated' = FALSE
    /\ UNCHANGED <<params, clock>>
    /\ call' = [NoCall EXCEPT !.op = "reset", !.now = clock]
    /\ hist' = [NoHist EXCEPT !.everFull = hist.everFull]

\* func (pid *PID) Reset()
Reset ==
    /\ prevError' = R(0)
    /\ integral' = R(0)
    /\ lastTime' = clock
    /\ UNCHANGED <<params, Saturated, lastOutput, clock>>
    /\ call' = [NoCall EXCEPT !.op = "reset", !.now = clock]
    /\ hist' = [NoHist EXCEPT !.everFull = hist.everFull]

\* Time passes between two calls.
Tick ==
    /\ clock < MaxClock
    /\ clock' = clock + 1
    /\ UNCHANGED <<params, Saturated, prevError, integral, lastTime, lastOutput,
                   call, hist>>

Next ==
    \/ \E setpoint \in Setpoints, measured \in Measureds, delay \in 0..1 :
          Update(setpoint, measured, delay)
    \/ Reset
    \/ Tick

Spec == Init /\ [][Next]_vars

\* ------------------------------------------------------------------ claims
Updated == call.op = "update"
Full == call.op = "update" /\ call.path = "full"
WithinLimits(x) == RLe(MinOutput, x) /\ RLe(x, MaxOutput)

\* pTerm + iTerm + dTerm of the last call, from the fields it started with.
ExpectedRaw ==
    RAdd(RAdd(RMul(Kp, call.error), RMul(Ki, call.pre.integral)),
         RDiv(RMul(Kd, RSub(call.error, call.pre.prevError)), R(call.dt)))

\* 0.5 * dt * (error + previous error) of the last call.
TrapezoidArea ==
    RMul(RMul(Half, R(call.dt)), RAdd(call.error, call.pre.prevError))

\* The fields a short-circuited call leaves: those it started with, the unset
\* timestamp replaced by the time of the call.
KeptFields ==
    [call.pre EXCEPT !.lastTime = IF IsZero(call.pre.lastTime) THEN call.now
                                  ELSE call.pre.lastTime]

\* C1: every value returned by Update lies in [MinOutput, MaxOutput]
\* (MinOutput <= MaxOutput in every configuration of Init), short-circuited
\* calls and the first call included.
C1_OutputWithinLimits == Updated => WithinLimits(call.ret)

\* C2 as claimed: an Update with |setpoint - measured| < Deadband returns the
\* stored last output and leaves prevError, integral and the timestamp as they
\* were, on the first call (timestamp unset) too.
C2_DeadbandNoMutation ==
    (Updated /\ RLt(RAbs(call.error), Deadband)) =>
        /\ call.ret = call.pre.lastOutput
        /\ prevError = call.pre.prevError
        /\ integral = call.pre.integral
        /\ lastTime = call.pre.lastTime

\* C2 amended: an Update with |setpoint - measured| < Deadband returns the
\* stored last output (the value the preceding Update returned, 0 if none),
\* leaves prevError and integral as they were, and leaves the timestamp as it
\* was unless it was unset, in which case it becomes the time of the call.
C2_DeadbandKeepsState ==
    /\ Updated => call.ret = lastOutput
    /\ (Updated /\ RLt(RAbs(call.error), Deadband)) =>
          /\ call.path # "full"
          /\ call.ret = call.pre.lastOutput
          /\ Fields = KeptFields

C2_Witness ==
    /\ Updated /\ call.path = "deadband"
    /\ ~IsZero(call.pre.lastTime)
    /\ call.pre.lastOutput # R(0)
    /\ call.error # call.pre.prevError

\* C3 as claimed: an Update that finds dt <= 0 returns the stored last output
\* and changes no field of the controller.
C3_NoElapsedNoMutation ==
    (Updated /\ call.dt <= 0) =>
        /\ call.ret = call.pre.lastOutput
        /\ Fields = call.pre

\* C3 amended: an Update that finds dt <= 0 returns the stored last output and
\* changes no field of the controller, except that a call on a controller whose
\* timestamp is unset sets the timestamp to the time of the call.
C3_NoElapsedKeepsState ==
    (Updated /\ call.dt <= 0) =>
        /\ call.path = "dt"
        /\ call.ret = call.pre.lastOutput
        /\ Fields = KeptFields

C3_Witness ==
    /\ Updated /\ call.dt <= 0
    /\ call.pre.lastTime = call.now
    /\ hist.everFull
    /\ call.ret # R(0)
    /\ call.error # prevError

\* The three cases of the output limits, for an Update that ran to its end.
ClampRule ==
    Full =>
        IF RLt(MaxOutput, ExpectedRaw)
          THEN call.ret = MaxOutput /\ (Saturated <=> RLt(R(0), call.error))
          ELSE IF RLt(ExpectedRaw, MinOutput)
            THEN call.ret = MinOutput /\ (Saturated <=> RLt(call.error, R(0)))
            ELSE call.ret = ExpectedRaw /\ ~Saturated

ProportionalOnly == Ki = R(0) /\ Kd = R(0)

\* C4 as claimed: after an Update that ran to its end the output and Saturated
\* follow the three cases of the limits; in particular, on a proportional-only
\* controller with Kp * error > MaxOutput, Update returns MaxOutput and
\* Saturated is true.
C4_ClampAndSaturation ==
    /\ ClampRule
    /\ (Full /\ ProportionalOnly /\ RLt(MaxOutput, RMul(Kp, call.error))) =>
          (call.ret = MaxOutput /\ Saturated)

\* C4 amended: the three cases as claimed; in particular, on a
\* proportional-only controller with Kp * error > MaxOutput and error > 0,
\* Update returns MaxOutput and Saturated is true.
C4_ClampAndSaturationPositiveError ==
    /\ ClampRule
    /\ (Full /\ ProportionalOnly /\ RLt(MaxOutput, RMul(Kp, call.error))
             /\ RLt(R(0), call.error)) =>
          (call.ret = MaxOutput /\ Saturated)

C4_Witness ==
    /\ Full /\ ProportionalOnly
    /\ RLt(MaxOutput, RMul(Kp, call.error))
    /\ call.ret = MaxOutput /\ Saturated

PureProportionalInRange ==
    /\ Updated /\ ProportionalOnly /\ Deadband = R(0)
    /\ WithinLimits(RMul(Kp, call.error))

\* C5 as claimed: a pure proportional controller (Ki = Kd = Deadband = 0) whose
\* limits are not reached returns Kp * (setpoint - measured) on every call.
C5_PureProportional ==
    PureProportionalInRange => call.ret = RMul(Kp, call.error)

\* C5 amended: a pure proportional controller (Ki = Kd = Deadband = 0) whose
\* limits are not reached returns Kp * (setpoint - measured) on every call
\* that finds dt > 0, whatever the earlier calls were.
C5_PureProportionalElapsed ==
    (PureProportionalInRange /\ call.dt > 0) => call.ret = RMul(Kp, call.error)

C5_Witness ==
    /\ PureProportionalInRange /\ call.dt > 0
    /\ ~call.first
    /\ call.error # call.pre.prevError
    /\ call.ret # call.error

\* C6: Reset sets prevError and integral to 0 and the timestamp to the current
\* time, and leaves the last output, Saturated and the parameters as they
\* were; an Update that short-circuits right after it returns the output
\* stored before the Reset.
C6_ResetFrame ==
    [][ /\ call'.op = "reset" =>
              /\ prevError' = R(0)
              /\ integral' = R(0)
              /\ lastTime' = call'.now /\ ~IsZero(lastTime')
              /\ lastOutput' = call'.pre.lastOutput
              /\ Saturated' = call'.pre.Saturated
              /\ params' = call'.pre.params
        /\ (call.op = "reset" /\ call'.op = "update" /\ call'.path # "full") =>
              call'.ret = call.pre.lastOutput ]_vars

C6_Witness ==
    /\ call.op = "reset"
    /\ call.pre.prevError # R(0) /\ call.pre.integral # R(0)
    /\ prevError = R(0) /\ integral = R(0)
    /\ lastOutput # R(0) /\ Saturated

\* C7 as claimed, in its narrowest reading: with AntiWindup, Ki > 0 and
\* MaxOutput >= 0, after a saturated Update of a run in which every Update
\* since construction or Reset had error > 0 and Kp * error > MaxOutput, the
\* integral is what it was before the call and |integral| <= MaxOutput / Ki.
C7_IntegralBounded ==
    (AntiWindup /\ RLt(R(0), Ki) /\ RLe(R(0), MaxOutput)
       /\ Full /\ hist.allLarge /\ Saturated) =>
        /\ integral = call.pre.integral
        /\ RLe(RAbs(integral), RDiv(MaxOutput, Ki))

\* C7 amended: with AntiWindup and Ki > 0, the integral does not change on
\* any Update whose result is saturated, and while every Update completed
\* since construction or Reset ended saturated the integral is still 0.
C7_IntegralFrozenWhileSaturated ==
    (AntiWindup /\ RLt(R(0), Ki) /\ Full) =>
        /\ Saturated => integral = call.pre.integral
        /\ hist.allSaturated => integral = R(0)

C7_Witness ==
    /\ AntiWindup /\ RLt(R(0), Ki) /\ Full /\ Saturated
    /\ call.pre.integral # R(0)
    /\ TrapezoidArea # call.pre.integral
    /\ integral = call.pre.integral

\* C8: an Update that ran to its end advances the integral to the candidate
\* value (the one the code computes, the trapezoid area of the step) when
\* AntiWindup is disabled or the result is not saturated, and leaves it alone
\* exactly when AntiWindup is enabled and the result is saturated.
C8_IntegralAdvance ==
    Full => integral = IF AntiWindup /\ Saturated THEN call.pre.integral
                       ELSE TrapezoidArea

\* C9: whenever an Update advances the integral, the new value is the previous
\* integral plus the trapezoid area of the step.
C9_TrapezoidalSum ==
    (Full /\ AntiWindup /\ ~Saturated) =>
        integral = RAdd(call.pre.integral, TrapezoidArea)

\* C10: the unclamped output of an Update is Kp*error + Ki*(the integral before
\* the call) + Kd*(error - previous error)/dt; on the first Update that runs to
\* its end after construction or Reset the integral term is 0 and the
\* unclamped output is Kp*error + Kd*error/dt.
C10_IntegralTermLags ==
    Full =>
        /\ call.raw = ExpectedRaw
        /\ WithinLimits(call.raw) => call.ret = call.raw
        /\ call.first =>
              /\ RMul(Ki, call.pre.integral) = R(0)
              /\ call.raw = RAdd(RMul(Kp, call.error),
                                 RDiv(RMul(Kd, call.error), R(call.dt)))

C10_Witness ==
    /\ Full /\ ~call.first
    /\ Ki # R(0) /\ call.pre.integral # R(0)
    /\ integral # call.pre.integral
    /\ WithinLimits(call.raw) /\ call.ret = call.raw

====
